---- MODULE Spec2Model ----
(***************************************************************************)
(* A model of mp3_processor.py: the MP3Processor class (absorb_mp3,        *)
(* absorb_multiple_mp3, record_audio, record_audio_interactive,            *)
(* _save_audio_simple) and the module functions absorb_mp3_file and        *)
(* record_and_save.                                                        *)
(*                                                                         *)
(* One behaviour is one processor: it is constructed (Init) and one public *)
(* operation is called on it and runs to its end (pc = "done").  The       *)
(* filesystem, the audio device and the user's Ctrl+C are the environment. *)
(* Text (paths, extensions) is a sequence of one-character strings; file   *)
(* content is a sequence of bytes 0..255.                                  *)
(***************************************************************************)
EXTENDS Integers, Sequences, FiniteSets, TLC

VARIABLES
    supported_extensions,  \* self.supported_extensions
    recording,             \* self.recording
    self_audio_data,       \* self.audio_data
    audioAvailable,        \* module global AUDIO_AVAILABLE
    device,                \* environment: input channels the audio device offers (0: none)
    fs,                    \* environment: the filesystem, path -> file
    fs0,                   \* history: the filesystem when the operation was called
    pc,                    \* control position of the operation
    op,                    \* the operation called and its arguments
    ret,                   \* how the operation ended: returned a value, or raised
    out,                   \* what the operation printed, in order
    results,               \* absorb_multiple_mp3: the dict under construction
    idx,                   \* absorb_multiple_mp3: position of the for loop
    audio_data,            \* record_*: the local array sd.rec returned
    stream,                \* sounddevice's stream behind sd.rec / sd.wait
    intr                   \* history: where Ctrl+C arrived, and whether the capture was complete

vars == <<supported_extensions, recording, self_audio_data, audioAvailable, device,
          fs, fs0, pc, op, ret, out, results, idx, audio_data, stream, intr>>

(***************************************************************************)
(* Bounds of the model.                                                    *)
(***************************************************************************)
MaxList == 2          \* longest list given to absorb_multiple_mp3
MaxSmallRate == 2     \* sample rates -1..MaxSmallRate, besides the default rate
MaxChannels == 3      \* channel counts 0..MaxChannels given to record_audio
MaxDuration == 2      \* durations -1..MaxDuration given to record_audio_interactive

(***************************************************************************)
(* Program constants.                                                      *)
(***************************************************************************)
DefaultSampleRate == 44100
RecordSeconds == 60
SampleWidth == 2

None == [kind |-> "None"]

(***************************************************************************)
(* Text.                                                                   *)
(***************************************************************************)
Min(a, b) == IF a < b THEN a ELSE b

\* The function f on 1..n as a sequence.
AsSeq(f, n) == SubSeq(f, 1, n)

\* str.lower() of one character, on the alphabet the model's paths use.
LowerChar(c) ==
    CASE c = "M" -> "m"
      [] c = "P" -> "p"
      [] c = "W" -> "w"
      [] c = "A" -> "a"
      [] c = "V" -> "v"
      [] OTHER -> c

Lower(s) == AsSeq([i \in 1..Len(s) |-> LowerChar(s[i])], Len(s))

\* Positions of "/" in s, and the components between them.
SlashAt(s) == {i \in 1..Len(s) : s[i] = "/"}

RECURSIVE Split(_)
Split(s) ==
    IF SlashAt(s) = {} THEN <<s>>
    ELSE LET i == CHOOSE j \in SlashAt(s) : \A k \in SlashAt(s) : j <= k
         IN <<SubSeq(s, 1, i - 1)>> \o Split(SubSeq(s, i + 1, Len(s)))

\* pathlib drops empty and "." components of a relative path.
KeptParts(parts) == SelectSeq(parts, LAMBDA c : c # <<>> /\ c # <<".">>)

RECURSIVE Join(_)
Join(parts) ==
    IF Len(parts) = 0 THEN <<>>
    ELSE IF Len(parts) = 1 THEN parts[1]
    ELSE parts[1] \o <<"/">> \o Join(Tail(parts))

\* str(Path(text)): the normalised path; the empty path is ".".
PathStr(text) ==
    LET parts == KeptParts(Split(text))
    IN IF Len(parts) = 0 THEN <<".">> ELSE Join(parts)

\* Path.name: the last component.
PathName(path) ==
    LET parts == KeptParts(Split(path))
    IN IF Len(parts) = 0 THEN <<>> ELSE parts[Len(parts)]

\* Path.suffix: from the last dot of the name, unless that dot is the name's
\* first or last character.
Suffix(path) ==
    LET name == PathName(path)
        dots == {i \in 1..Len(name) : name[i] = "."}
    IN IF dots = {} THEN <<>>
       ELSE LET i == CHOOSE j \in dots : \A k \in dots : k <= j
            IN IF 1 < i /\ i < Len(name) THEN SubSeq(name, i, Len(name)) ELSE <<>>

(***************************************************************************)
(* The filesystem.                                                         *)
(***************************************************************************)
NoFile == [exists |-> FALSE, bytes |-> <<>>]
FileOf(bytes) == [exists |-> TRUE, bytes |-> bytes]

EmptyContent == <<>>
FilledContent == AsSeq([i \in 1..1000 |-> 85], 1000)

A_MP3 == <<"a", ".", "m", "p", "3">>
B_MP3_UPPER == <<"b", ".", "M", "P", "3">>
C_WAV == <<"c", ".", "w", "a", "v">>
DOT_MP3 == <<".", "m", "p", "3">>
LOCKED_MP3 == <<"d", "/", "e", ".", "m", "p", "3">>
O_WAV == <<"o", ".", "w", "a", "v">>
RO_WAV == <<"r", "/", "o", ".", "w", "a", "v">>

\* Files the validator is asked about, and files the recorder writes.
ValidatorFiles == {A_MP3, B_MP3_UPPER, C_WAV, DOT_MP3}
OutputFiles == {O_WAV}
Files == ValidatorFiles \cup OutputFiles

\* Paths under the directory "d", which gives no search permission: stat fails
\* with PermissionError.  Paths under "r", which gives no write permission.
Unreadable(path) == Len(path) >= 2 /\ SubSeq(path, 1, 2) = <<"d", "/">>
Unwritable(path) == Len(path) >= 2 /\ SubSeq(path, 1, 2) = <<"r", "/">>

PathExists(path, f) == path \in DOMAIN f /\ f[path].exists
StatSize(path, f) == Len(f[path].bytes)

(***************************************************************************)
(* absorb_mp3.                                                             *)
(***************************************************************************)
\* A file_path argument: a str or a pathlib.Path (Union[str, Path]).
StrArg(text) == [kind |-> "str", text |-> text]
PathArg(text) == [kind |-> "Path", text |-> PathStr(text)]

\* str(file_path): a str is itself, a Path is its normalised text.
Str(file_path) == file_path.text

\* Path(file_path)
PathOf(file_path) == PathStr(file_path.text)

Printed(msg, path, size) == [msg |-> msg, path |-> path, size |-> size]

AbsorbMp3_CaseSensitive(file_path, f, extensions) ==
    LET path == PathOf(file_path)
    IN IF Unreadable(path)
       THEN [ret |-> FALSE, out |-> <<Printed("Error absorbing MP3 file", path, -1)>>]
       ELSE IF ~PathExists(path, f)
       THEN [ret |-> FALSE, out |-> <<Printed("does not exist", path, -1)>>]
       ELSE IF Suffix(path) \notin extensions
       THEN [ret |-> FALSE, out |-> <<Printed("is not an MP3 file", path, -1)>>]
       ELSE IF StatSize(path, f) = 0
       THEN [ret |-> FALSE, out |-> <<Printed("is empty", path, -1)>>]
       ELSE [ret |-> TRUE,
             out |-> <<Printed("Successfully absorbed MP3 file", path, -1),
                       Printed("File size", path, StatSize(path, f))>>]

\* The value absorb_mp3 returns and what it prints, on filesystem f.  path.exists()
\* re-raises the PermissionError of an unreadable path; `except Exception` turns
\* it into False.
AbsorbMp3(file_path, f, extensions) ==
    LET path == PathOf(file_path)
    IN IF Unreadable(path)
       THEN [ret |-> FALSE, out |-> <<Printed("Error absorbing MP3 file", path, -1)>>]
       ELSE IF ~PathExists(path, f)
       THEN [ret |-> FALSE, out |-> <<Printed("does not exist", path, -1)>>]
       ELSE IF Lower(Suffix(path)) \notin extensions
       THEN [ret |-> FALSE, out |-> <<Printed("is not an MP3 file", path, -1)>>]
       ELSE IF StatSize(path, f) = 0
       THEN [ret |-> FALSE, out |-> <<Printed("is empty", path, -1)>>]
       ELSE [ret |-> TRUE,
             out |-> <<Printed("Successfully absorbed MP3 file", path, -1),
                       Printed("File size", path, StatSize(path, f))>>]

(***************************************************************************)
(* The operations' common bookkeeping.                                     *)
(***************************************************************************)
NoStream == [state |-> "none", frames |-> 0, channels |-> 0, frame |-> 0,
             block |-> 0, signal |-> 0, junk |-> 0, chunks |-> 0, late |-> 0]
NoRet == [kind |-> "none", value |-> FALSE]
Return(v) == [kind |-> "return", value |-> v]
Raise(e) == [kind |-> "raise", value |-> e]
NoIntr == [at |-> "none", complete |-> FALSE]
EmptyDict == [k \in {} |-> FALSE]

\* Python's dict assignment d[k] = v.
Put(d, k, v) == [x \in (DOMAIN d) \cup {k} |-> IF x = k THEN v ELSE d[x]]

\* MP3Processor.__init__
Constructed ==
    /\ supported_extensions = {<<".", "m", "p", "3">>}
    /\ recording = FALSE
    /\ self_audio_data = None

NotCalled ==
    /\ pc = "idle"
    /\ op = [name |-> "none"]
    /\ ret = NoRet
    /\ out = <<>>
    /\ results = EmptyDict
    /\ idx = 0
    /\ audio_data = None
    /\ stream = NoStream
    /\ intr = NoIntr

Contents == {NoFile, FileOf(EmptyContent), FileOf(FilledContent)}

selfVars == <<supported_extensions, recording, self_audio_data>>
envVars == <<audioAvailable, device>>
recVars == <<audio_data, stream, intr>>
loopVars == <<results, idx>>

(***************************************************************************)
(* The validator's operations.                                             *)
(***************************************************************************)
DOT_SLASH_A_MP3 == <<".", "/", "a", ".", "m", "p", "3">>
Z_MP3 == <<"z", ".", "m", "p", "3">>

\* The file_path arguments the model calls the validator with.
PathInputs ==
    {StrArg(A_MP3), StrArg(DOT_SLASH_A_MP3), PathArg(DOT_SLASH_A_MP3),
     StrArg(B_MP3_UPPER), StrArg(C_WAV), StrArg(DOT_MP3), StrArg(LOCKED_MP3),
     StrArg(Z_MP3)}

RECURSIVE ListsUpTo(_)
ListsUpTo(n) ==
    IF n = 0 THEN {<<>>}
    ELSE LET shorter == ListsUpTo(n - 1)
         IN shorter \cup {Append(l, x) : l \in {m \in shorter : Len(m) = n - 1},
                                           x \in PathInputs}

\* processor.absorb_mp3(file_path)
CallAbsorbMp3 ==
    /\ pc = "idle"
    /\ \E file_path \in PathInputs :
         LET r == AbsorbMp3(file_path, fs, supported_extensions)
         IN /\ op' = [name |-> "absorb_mp3", entry |-> "absorb_mp3",
                      file_path |-> file_path]
            /\ ret' = Return(r.ret)
            /\ out' = r.out
    /\ pc' = "done"
    /\ UNCHANGED <<selfVars, envVars, fs, fs0, loopVars, recVars>>

\* absorb_mp3_file(file_path): a new MP3Processor, then its absorb_mp3.
CallAbsorbMp3File ==
    /\ pc = "idle"
    /\ supported_extensions' = {<<".", "m", "p", "3">>}
    /\ recording' = FALSE
    /\ self_audio_data' = None
    /\ \E file_path \in PathInputs :
         LET r == AbsorbMp3(file_path, fs, supported_extensions')
         IN /\ op' = [name |-> "absorb_mp3", entry |-> "absorb_mp3_file",
                      file_path |-> file_path]
            /\ ret' = Return(r.ret)
            /\ out' = r.out
    /\ pc' = "done"
    /\ UNCHANGED <<envVars, fs, fs0, loopVars, recVars>>

\* processor.absorb_multiple_mp3(file_paths): results = {}
CallAbsorbMultipleMp3 ==
    /\ pc = "idle"
    /\ \E file_paths \in ListsUpTo(MaxList) :
         op' = [name |-> "absorb_multiple_mp3", entry |-> "absorb_multiple_mp3",
                file_paths |-> file_paths]
    /\ results' = EmptyDict
    /\ idx' = 1
    /\ pc' = "for"
    /\ UNCHANGED <<selfVars, envVars, fs, fs0, ret, out, recVars>>

ResultKey_Normalised(file_path) == PathOf(file_path)

\* The key of one result: str(file_path).
ResultKey(file_path) == Str(file_path)

\* One turn of the for loop.
AbsorbMultipleStep ==
    /\ pc = "for"
    /\ idx <= Len(op.file_paths)
    /\ LET file_path == op.file_paths[idx]
           r == AbsorbMp3(file_path, fs, supported_extensions)
       IN /\ results' = Put(results, ResultKey(file_path), r.ret)
          /\ out' = out \o r.out
    /\ idx' = idx + 1
    /\ UNCHANGED <<selfVars, envVars, fs, fs0, pc, op, ret, recVars>>

\* return results
AbsorbMultipleReturn ==
    /\ pc = "for"
    /\ idx > Len(op.file_paths)
    /\ ret' = Return(results)
    /\ pc' = "done"
    /\ UNCHANGED <<selfVars, envVars, fs, fs0, op, out, loopVars, recVars>>

InitAbsorb ==
    /\ Constructed
    /\ NotCalled
    /\ audioAvailable = TRUE
    /\ device = 2
    /\ fs \in [Files -> Contents]
    /\ \A p \in OutputFiles : fs[p] = NoFile
    /\ fs0 = fs

NextAbsorb ==
    \/ CallAbsorbMp3
    \/ CallAbsorbMp3File
    \/ CallAbsorbMultipleMp3
    \/ AbsorbMultipleStep
    \/ AbsorbMultipleReturn

SpecAbsorb == InitAbsorb /\ [][NextAbsorb]_vars

(***************************************************************************)
(* The audio device behind sounddevice's rec and wait.                     *)
(***************************************************************************)
\* Frames one callback of the stream may deliver: the stream's block size.
BlockSizes == {50, 1024}

\* What the microphone delivers: silence, or a cycle through the int16 range.
Signals == {0, 1}
SignalTable == <<-32768, -1, 0, 1, 32767, 255, 256, -256, 12345>>
Signal(sig, k) == IF sig = 0 THEN 0 ELSE SignalTable[((k - 1) % Len(SignalTable)) + 1]

\* What np.empty leaves in frames the stream has not filled yet.
JunkValues == {0, -21846}

StreamOpen(st) == st.state \in {"active", "finished"}

\* The (frames, channels) int16 array sd.rec returned, in C order, as the stream
\* has filled it so far.
ArrayOf(st) ==
    AsSeq([k \in 1..(st.frames * st.channels) |->
              IF (k - 1) \div st.channels < st.frame
              THEN Signal(st.signal, k) ELSE st.junk],
          st.frames * st.channels)

(***************************************************************************)
(* _save_audio_simple: the WAV container the wave module writes.           *)
(***************************************************************************)
RECURSIVE Pow256(_)
Pow256(n) == IF n = 0 THEN 1 ELSE 256 * Pow256(n - 1)

\* struct.pack('<H' / '<L'): n in `width` little-endian bytes.
LittleEndian(n, width) ==
    AsSeq([i \in 1..width |-> (n \div Pow256(i - 1)) % 256], width)

Tobytes_BigEndian(samples) ==
    AsSeq([i \in 1..(2 * Len(samples)) |->
              LET v == samples[(i + 1) \div 2]
                  u == IF v < 0 THEN v + 65536 ELSE v
              IN IF i % 2 = 1 THEN u \div 256 ELSE u % 256],
          2 * Len(samples))

\* audio_data.tobytes(): each int16 in two's complement, low byte first.
Tobytes(samples) ==
    AsSeq([i \in 1..(2 * Len(samples)) |->
              LET v == samples[(i + 1) \div 2]
                  u == IF v < 0 THEN v + 65536 ELSE v
              IN IF i % 2 = 1 THEN u % 256 ELSE u \div 256],
          2 * Len(samples))

RIFF == <<82, 73, 70, 70>>
WAVE == <<87, 65, 86, 69>>
FMT == <<102, 109, 116, 32>>
DATA == <<100, 97, 116, 97>>

\* The 44 header bytes for setnchannels(channels), setsampwidth(2),
\* setframerate(sample_rate) and datalength bytes of frames.
WavHeader(channels, sampwidth, sample_rate, datalength) ==
    RIFF \o LittleEndian(36 + datalength, 4) \o WAVE \o FMT
         \o LittleEndian(16, 4) \o LittleEndian(1, 2)
         \o LittleEndian(channels, 2) \o LittleEndian(sample_rate, 4)
         \o LittleEndian(channels * sample_rate * sampwidth, 4)
         \o LittleEndian(channels * sampwidth, 2)
         \o LittleEndian(sampwidth * 8, 2)
         \o DATA \o LittleEndian(datalength, 4)

\* The file writeframes(data) leaves: the header, then the data.
WavBytes(samples, sample_rate, channels) ==
    LET data == Tobytes(samples)
    IN WavHeader(channels, SampleWidth, sample_rate, Len(data)) \o data

\* The filesystem after _save_audio_simple returned: wave.open(filename, 'wb')
\* truncates or creates the file, writeframes writes header and data.
SaveAudioSimple(filename, samples, sample_rate, channels, f) ==
    [f EXCEPT ![filename] = FileOf(WavBytes(samples, sample_rate, channels))]

\* The filesystems a KeyboardInterrupt inside _save_audio_simple can leave: the
\* file untouched (before open), empty (after open: 'wb' truncates), holding a
\* header for no frames (after the setters: the with block's close writes it), or
\* written whole (after writeframes).
SaveInterruptedOutcomes(filename, samples, sample_rate, channels, f) ==
    IF Unwritable(filename) THEN {f}
    ELSE {f,
          [f EXCEPT ![filename] = FileOf(EmptyContent)],
          [f EXCEPT ![filename] = FileOf(WavHeader(channels, SampleWidth, sample_rate, 0))],
          SaveAudioSimple(filename, samples, sample_rate, channels, f)}

(***************************************************************************)
(* The recorder's operations.                                              *)
(***************************************************************************)
OutputPaths == {O_WAV, RO_WAV}
SmallRates == -1..MaxSmallRate
ChannelCounts == 0..MaxChannels
Durations == -1..MaxDuration
DeviceChannels == {0, 2, 4}

Say(msg) == Printed(msg, <<>>, -1)

IsRecordAudio == op.name = "record_audio"
IsInteractive == op.name = "record_audio_interactive"
IsRecorder == IsRecordAudio \/ IsInteractive

\* processor.record_audio(output_file, sample_rate, channels), to line 48
CallRecordAudio ==
    /\ pc = "idle"
    /\ \E output_file \in OutputPaths, sample_rate \in SmallRates,
          channels \in ChannelCounts :
         op' = [name |-> "record_audio", entry |-> "record_audio",
                output_file |-> output_file, sample_rate |-> sample_rate,
                channels |-> channels]
    /\ IF audioAvailable
       THEN /\ out' = <<Say("Recording started")>>
            /\ pc' = "rec"
            /\ ret' = ret
       ELSE /\ out' = <<Say("Audio recording not available")>>
            /\ pc' = "done"
            /\ ret' = Return(FALSE)
    /\ UNCHANGED <<selfVars, envVars, fs, fs0, loopVars, recVars>>

\* processor.record_audio_interactive(output_file, sample_rate, duration), to
\* line 96
CallRecordAudioInteractive ==
    /\ pc = "idle"
    /\ \E output_file \in OutputPaths, sample_rate \in SmallRates,
          duration \in Durations :
         op' = [name |-> "record_audio_interactive",
                entry |-> "record_audio_interactive",
                output_file |-> output_file, sample_rate |-> sample_rate,
                duration |-> duration]
    /\ IF audioAvailable
       THEN /\ out' = <<Say("Recording for duration")>>
            /\ pc' = "rec"
            /\ ret' = ret
       ELSE /\ out' = <<Say("Audio recording not available")>>
            /\ pc' = "done"
            /\ ret' = Return(FALSE)
    /\ UNCHANGED <<selfVars, envVars, fs, fs0, loopVars, recVars>>

\* record_and_save(output_file, duration): a new MP3Processor, then its
\* record_audio_interactive with the default sample rate.
CallRecordAndSave ==
    /\ pc = "idle"
    /\ supported_extensions' = {<<".", "m", "p", "3">>}
    /\ recording' = FALSE
    /\ self_audio_data' = None
    /\ \E output_file \in OutputPaths, duration \in Durations :
         op' = [name |-> "record_audio_interactive", entry |-> "record_and_save",
                output_file |-> output_file, sample_rate |-> DefaultSampleRate,
                duration |-> duration]
    /\ IF audioAvailable
       THEN /\ out' = <<Say("Recording for duration")>>
            /\ pc' = "rec"
            /\ ret' = ret
       ELSE /\ out' = <<Say("Audio recording not available")>>
            /\ pc' = "done"
            /\ ret' = Return(FALSE)
    /\ UNCHANGED <<envVars, fs, fs0, loopVars, recVars>>

InteractiveFrames_Padded(sample_rate, duration) ==
    LET n == sample_rate * duration
    IN IF n <= 0 THEN n ELSE ((n + 1023) \div 1024) * 1024

\* int(sample_rate * duration)
InteractiveFrames(sample_rate, duration) == sample_rate * duration

\* int(sample_rate * 60)
RecordAudioFrames(sample_rate) == sample_rate * RecordSeconds

\* The frames and channels the operation asks sd.rec for.
RecFrames(o) ==
    IF o.name = "record_audio" THEN RecordAudioFrames(o.sample_rate)
    ELSE InteractiveFrames(o.sample_rate, o.duration)
RecChannels(o) == IF o.name = "record_audio" THEN o.channels ELSE 1

\* sd.rec raises: ValueError from np.empty for a negative frame count,
\* PortAudioError when the device cannot be opened with this sample rate and
\* channel count.
RecRaisesFor(o, dev) ==
    \/ RecFrames(o) < 0
    \/ RecChannels(o) < 0
    \/ o.sample_rate <= 0
    \/ RecChannels(o) < 1
    \/ RecChannels(o) > dev

\* sd.rec raised: except Exception
RecRaises ==
    /\ pc = "rec"
    /\ IsRecorder
    /\ RecRaisesFor(op, device)
    /\ out' = Append(out, Say("Error recording audio"))
    /\ ret' = Return(FALSE)
    /\ pc' = "done"
    /\ UNCHANGED <<selfVars, envVars, fs, fs0, op, loopVars, recVars>>

\* audio_data = sd.rec(frames, samplerate, channels, dtype='int16'): the stream
\* is opened and started, the array allocated; rec does not block.
RecStarts ==
    /\ pc = "rec"
    /\ IsRecorder
    /\ ~RecRaisesFor(op, device)
    /\ \E block \in BlockSizes, signal \in Signals, junk \in JunkValues :
         stream' = [state |-> "active", frames |-> RecFrames(op),
                    channels |-> RecChannels(op), frame |-> 0, block |-> block,
                    signal |-> signal, junk |-> junk, chunks |-> 0, late |-> 0]
    /\ audio_data' = [kind |-> "ndarray"]
    /\ pc' = "wait"
    /\ UNCHANGED <<selfVars, envVars, fs, fs0, op, ret, out, loopVars, intr>>

\* The stream's callback, on the audio thread: it copies the next block into the
\* array; called with nothing left to copy it ends the stream.  (chunks counts
\* the blocks copied; late, up to 2, those copied after the operation left the
\* capture: both are history.)
StreamCallback ==
    /\ stream.state = "active"
    /\ LET n == Min(stream.frames - stream.frame, stream.block)
       IN stream' = IF n = 0
                    THEN [stream EXCEPT !.state = "finished"]
                    ELSE [stream EXCEPT !.frame = @ + n, !.chunks = @ + 1,
                                        !.late = IF pc \in {"save", "done"}
                                                 THEN Min(@ + 1, 2) ELSE @]
    /\ UNCHANGED <<selfVars, envVars, fs, fs0, pc, op, ret, out, loopVars,
                   audio_data, intr>>

\* sd.wait() returns: the stream has ended, and wait closes it.
WaitReturns ==
    /\ pc = "wait"
    /\ stream.state = "finished"
    /\ stream' = [stream EXCEPT !.state = "closed"]
    /\ pc' = "save"
    /\ UNCHANGED <<selfVars, envVars, fs, fs0, op, ret, out, loopVars,
                   audio_data, intr>>

\* self._save_audio_simple(...) raises OSError: except Exception
SaveRaises ==
    /\ pc = "save"
    /\ Unwritable(op.output_file)
    /\ out' = Append(out, Say("Error recording audio"))
    /\ ret' = Return(FALSE)
    /\ pc' = "done"
    /\ UNCHANGED <<selfVars, envVars, fs, fs0, op, loopVars, recVars>>

\* self._save_audio_simple(...) returns; print; return True
SaveReturns ==
    /\ pc = "save"
    /\ ~Unwritable(op.output_file)
    /\ fs' = SaveAudioSimple(op.output_file, ArrayOf(stream), op.sample_rate,
                             RecChannels(op), fs)
    /\ out' = Append(out, Say("Audio saved to"))
    /\ ret' = Return(TRUE)
    /\ pc' = "done"
    /\ UNCHANGED <<selfVars, envVars, fs0, op, loopVars, recVars>>

\* What a KeyboardInterrupt during the capture leaves of the stream and the
\* filesystem, by where it arrives: at sd.wait, either before wait's try (the
\* stream stays open and running) or inside it (wait's finally closes the
\* stream); inside _save_audio_simple.
InterruptOutcomes ==
    CASE pc = "wait" -> {<<stream, fs>>, <<[stream EXCEPT !.state = "closed"], fs>>}
      [] pc = "save" ->
            {<<stream, f>> : f \in SaveInterruptedOutcomes(op.output_file,
                ArrayOf(stream), op.sample_rate, RecChannels(op), fs)}

KeyboardInterruptRecordAudio_SavesPartial ==
    /\ pc \in {"wait", "save"}
    /\ IsRecordAudio
    /\ \E o \in InterruptOutcomes :
         /\ stream' = o[1]
         /\ fs' = IF pc = "wait" /\ ~Unwritable(op.output_file)
                  THEN SaveAudioSimple(op.output_file, ArrayOf(stream),
                                       op.sample_rate, RecChannels(op), fs)
                  ELSE o[2]
    /\ intr' = [at |-> pc, complete |-> stream.frame = stream.frames]
    /\ out' = Append(out, Say("Recording stopped!"))
    /\ ret' = Return(FALSE)
    /\ pc' = "done"
    /\ UNCHANGED <<selfVars, envVars, fs0, op, loopVars, audio_data>>

\* record_audio, Ctrl+C once sd.rec has started the stream: except
\* KeyboardInterrupt; return False
KeyboardInterruptRecordAudio ==
    /\ pc \in {"wait", "save"}
    /\ IsRecordAudio
    /\ \E o \in InterruptOutcomes :
         /\ stream' = o[1]
         /\ fs' = o[2]
    /\ intr' = [at |-> pc, complete |-> stream.frame = stream.frames]
    /\ out' = Append(out, Say("Recording stopped!"))
    /\ ret' = Return(FALSE)
    /\ pc' = "done"
    /\ UNCHANGED <<selfVars, envVars, fs0, op, loopVars, audio_data>>

\* record_audio_interactive, Ctrl+C once sd.rec has started the stream:
\* KeyboardInterrupt is no Exception, so `except Exception` lets it through to
\* the caller.
KeyboardInterruptInteractive ==
    /\ pc \in {"wait", "save"}
    /\ IsInteractive
    /\ \E o \in InterruptOutcomes :
         /\ stream' = o[1]
         /\ fs' = o[2]
    /\ intr' = [at |-> pc, complete |-> stream.frame = stream.frames]
    /\ ret' = Raise("KeyboardInterrupt")
    /\ pc' = "done"
    /\ UNCHANGED <<selfVars, envVars, fs0, op, out, loopVars, audio_data>>

Init ==
    /\ Constructed
    /\ NotCalled
    /\ audioAvailable \in BOOLEAN
    /\ device \in DeviceChannels
    /\ \E old \in {NoFile, FileOf(FilledContent)} :
         fs = [p \in Files |-> IF p \in OutputFiles THEN old ELSE NoFile]
    /\ fs0 = fs

NextRecord ==
    \/ CallRecordAudio
    \/ CallRecordAudioInteractive
    \/ CallRecordAndSave
    \/ RecRaises
    \/ RecStarts
    \/ StreamCallback
    \/ WaitReturns
    \/ SaveRaises
    \/ SaveReturns
    \/ KeyboardInterruptRecordAudio
    \/ KeyboardInterruptInteractive

Next == NextAbsorb \/ NextRecord

Spec == Init /\ [][Next]_vars

(***************************************************************************)
(* The file validator's claims (checked under SpecAbsorb).                 *)
(***************************************************************************)
\* The reference function `validate` of the specification.
AcceptedExtensions == {<<".", "m", "p", "3">>}

ReferenceValidate(path, f) ==
    IF ~PathExists(path, f)
    THEN [kind |-> "NotFoundError", path |-> path, size_in_bytes |-> -1]
    ELSE IF \A e \in AcceptedExtensions : Lower(Suffix(path)) # Lower(e)
    THEN [kind |-> "UnsupportedExtensionError", path |-> path, size_in_bytes |-> -1]
    ELSE IF Len(f[path].bytes) = 0
    THEN [kind |-> "EmptyFileError", path |-> path, size_in_bytes |-> -1]
    ELSE [kind |-> "Success", path |-> path, size_in_bytes |-> Len(f[path].bytes)]

\* What a finished absorb_mp3 reported: the error its message names, or success
\* with the path and the size it printed.
ReportedKind(msg) ==
    CASE msg = "does not exist" -> "NotFoundError"
      [] msg = "is not an MP3 file" -> "UnsupportedExtensionError"
      [] msg = "is empty" -> "EmptyFileError"
      [] msg = "Successfully absorbed MP3 file" -> "Success"
      [] OTHER -> "Failure"

Reported ==
    [kind |-> ReportedKind(out[1].msg), path |-> out[1].path,
     size_in_bytes |-> out[Len(out)].size]

AbsorbDone == pc = "done" /\ op.name = "absorb_mp3"

\* C1, as stated: for every path absorb_mp3 gives the result of the reference
\* function: NotFoundError, else UnsupportedExtensionError, else EmptyFileError,
\* else success with the path and the size.  (Read as generously as the code
\* allows: the result is taken from what absorb_mp3 prints.)
C1_Original ==
    AbsorbDone => Reported = ReferenceValidate(PathOf(op.file_path), fs)

\* C1, amended: absorb_mp3 returns a bare bool, True exactly when the reference
\* function succeeds; the error kind, the path and the size are only printed, in
\* the reference function's order of checks; and a path whose stat raises
\* (permission denied) gives False with the message "Error absorbing MP3 file",
\* which is none of the three errors.  The filesystem is not changed.
C1_Validate ==
    AbsorbDone =>
        LET path == PathOf(op.file_path)
            ref == ReferenceValidate(path, fs)
        IN /\ ret.kind = "return"
           /\ ret.value \in BOOLEAN
           /\ fs = fs0
           /\ IF Unreadable(path)
              THEN /\ ret.value = FALSE
                   /\ Len(out) = 1
                   /\ out[1].msg = "Error absorbing MP3 file"
              ELSE /\ ret.value = (ref.kind = "Success")
                   /\ Reported = ref

\* A 1000-byte ".mp3" file was absorbed: True, and size 1000 printed.
C1_Witness ==
    /\ AbsorbDone
    /\ PathOf(op.file_path) = A_MP3
    /\ ret = Return(TRUE)
    /\ Reported.size_in_bytes = 1000

\* C9: absorb_multiple_mp3 returns a dict whose keys are exactly the str(p) of
\* the paths given and whose value under str(p) is what absorb_mp3 returns for
\* the last entry with that str(p), whatever else is in the list.
C9_Multiple ==
    (pc = "done" /\ op.name = "absorb_multiple_mp3") =>
        LET paths == op.file_paths
        IN /\ ret.kind = "return"
           /\ DOMAIN ret.value = {Str(paths[i]) : i \in 1..Len(paths)}
           /\ \A i \in 1..Len(paths) :
                LET same == {j \in 1..Len(paths) : Str(paths[j]) = Str(paths[i])}
                    last == CHOOSE j \in same : \A k \in same : k <= j
                IN ret.value[Str(paths[i])] =
                       AbsorbMp3(paths[last], fs, supported_extensions).ret

\* Two paths were given, one absorbed and one not.
C9_Witness ==
    /\ pc = "done"
    /\ op.name = "absorb_multiple_mp3"
    /\ Len(op.file_paths) = 2
    /\ \E k1, k2 \in DOMAIN ret.value : ret.value[k1] /\ ~ret.value[k2]

(***************************************************************************)
(* The recorder's claims (checked under Spec).                             *)
(***************************************************************************)
RecorderDone == pc = "done" /\ IsRecorder

\* The capture ran to its end: sd.wait returned, control went on to the save.
CaptureCompleted ==
    /\ IsRecorder
    /\ \/ pc = "save"
       \/ pc = "done" /\ stream.state = "closed" /\ intr.at \in {"none", "save"}

\* C2: every public operation ends by returning a success/failure value; no
\* exception escapes it, whatever fails while it runs, a Ctrl+C during capture
\* included.
C2_NoExceptionEscapes == pc = "done" => ret.kind = "return"

\* C3: a capture session that ends with zero chunks captured never reports
\* success.
C3_EmptyCaptureFails ==
    (RecorderDone /\ stream.state # "none" /\ stream.chunks = 0)
        => ret # Return(TRUE)

\* C4: with sample_rate <= 0 or channels not in {1, 2} the capture fails before
\* the device is opened: no stream, no chunk, no file written, and the result is
\* a failure.
InvalidConfig == op.sample_rate <= 0 \/ RecChannels(op) \notin {1, 2}

C4_ConfigValidated ==
    (IsRecorder /\ InvalidConfig) =>
        /\ stream.state = "none"
        /\ stream.chunks = 0
        /\ fs = fs0
        /\ ret # Return(TRUE)

\* Chunks of `size` frames needed to hold n frames.
CeilDiv(n, size) == (n + size - 1) \div size

\* C5, as stated: a duration-bounded capture that runs to completion holds
\* whole chunks, within one of D/C of them; sample_rate=44100, duration=1 and
\* chunk_size=1024 give 44 chunks, a buffer of 44*1024 = 45056 samples.
C5_Original ==
    (CaptureCompleted /\ IsInteractive) =>
        /\ stream.chunks = CeilDiv(op.sample_rate * op.duration, stream.block)
        /\ (op.sample_rate = 44100 /\ op.duration = 1 /\ stream.block = 1024) =>
             /\ stream.chunks = 44
             /\ Len(ArrayOf(stream)) = 45056

\* C5, amended: a duration-bounded capture that runs to completion holds exactly
\* sample_rate * duration frames, whatever the size of the chunks the device
\* delivers; it takes ceil(frames / chunk size) chunks, the last one partial when
\* the chunk size does not divide the frames.  sample_rate=44100, duration=1 and
\* chunk_size=1024 give 44 chunks and a buffer of 44100 samples (43 chunks of
\* 1024 and one of 68), not 45056.
C5_CapturedLength ==
    (CaptureCompleted /\ IsInteractive) =>
        LET frames == op.sample_rate * op.duration
        IN /\ stream.frames = frames
           /\ stream.frame = frames
           /\ Len(ArrayOf(stream)) = frames
           /\ stream.chunks = CeilDiv(frames, stream.block)
           /\ stream.chunks * stream.block >= frames
           /\ stream.chunks * stream.block < frames + stream.block
           /\ (op.sample_rate = 44100 /\ op.duration = 1 /\ stream.block = 1024) =>
                /\ stream.chunks = 44
                /\ Len(ArrayOf(stream)) = 44100

\* The concrete scenario ran to completion.
C5_Witness ==
    /\ CaptureCompleted
    /\ IsInteractive
    /\ op.sample_rate = 44100
    /\ op.duration = 1
    /\ stream.block = 1024
    /\ stream.chunks = 44
    /\ stream.frame = 44100

\* Reading a WAV file back: the header's fields and the samples of the data
\* chunk, each two bytes, low byte first, in two's complement.
FromLittleEndian(bytes, first, width) ==
    LET RECURSIVE Sum(_)
        Sum(i) == IF i > width THEN 0
                  ELSE bytes[first + i - 1] * Pow256(i - 1) + Sum(i + 1)
    IN Sum(1)

ReadWav(bytes) ==
    IF Len(bytes) < 44 THEN [ok |-> FALSE]
    ELSE LET datalength == FromLittleEndian(bytes, 41, 4)
             data == SubSeq(bytes, 45, Len(bytes))
         IN [ok |-> /\ SubSeq(bytes, 1, 4) = RIFF
                    /\ FromLittleEndian(bytes, 5, 4) = Len(bytes) - 8
                    /\ SubSeq(bytes, 9, 12) = WAVE
                    /\ SubSeq(bytes, 13, 16) = FMT
                    /\ FromLittleEndian(bytes, 21, 2) = 1
                    /\ SubSeq(bytes, 37, 40) = DATA
                    /\ datalength = Len(data),
             nchannels |-> FromLittleEndian(bytes, 23, 2),
             framerate |-> FromLittleEndian(bytes, 25, 4),
             sampwidth |-> FromLittleEndian(bytes, 35, 2) \div 8,
             samples |->
                 AsSeq([k \in 1..(Len(data) \div 2) |->
                           LET u == data[2 * k - 1] + 256 * data[2 * k]
                           IN IF u >= 32768 THEN u - 65536 ELSE u],
                       Len(data) \div 2)]

\* C6: after a save that returned, the file read back is a WAV file of exactly
\* header and data, whose header gives the sample rate, the channel count and a
\* 16-bit sample width, and whose samples are the captured ones in capture
\* order; nothing of a file that was there before is left.
C6_RoundTrip ==
    (RecorderDone /\ ret = Return(TRUE)) =>
        LET wav == ReadWav(fs[op.output_file].bytes)
        IN /\ fs[op.output_file].exists
           /\ wav.ok
           /\ wav.nchannels = RecChannels(op)
           /\ wav.framerate = op.sample_rate
           /\ wav.sampwidth = 2
           /\ wav.samples = ArrayOf(stream)

\* A two-channel capture of the full int16 range replaced an existing file.
C6_Witness ==
    /\ RecorderDone
    /\ ret = Return(TRUE)
    /\ fs0[op.output_file].exists
    /\ RecChannels(op) = 2
    /\ stream.signal = 1
    /\ stream.frames > 0

\* C7: once the capture is stopped (by Ctrl+C or by the duration elapsing) the
\* producer appends at most the chunk it was reading; no chunk after that.
C7_ProducerStops == stream.late <= 1

\* C8: when a capture operation has ended, by return or by exception, its
\* stream on the input device is no longer open.
C8_DeviceReleased == RecorderDone => ~StreamOpen(stream)

====
